---- MODULE Spec2Model ----
(***************************************************************************)
(* Model of the query-time core of the medical chatbot:                    *)
(*   core/vector_search.py        VectorSearcher.search_with_subgraphs     *)
(*   core/cross_encoder_ranker.py CrossEncoderRanker.rerank                *)
(*   core/llm_generator.py        LLMGenerator.generate_answer             *)
(*   core/query_pipeline.py       QueryPipeline.process_query              *)
(*                                                                         *)
(* Scores are integers: similarity scores in hundredths (0.85 is 85),      *)
(* cross-encoder scores in tenths (0.6 is 6).  Python strings are          *)
(* sequences of tokens, so that formatting is concatenation and strip()    *)
(* removes leading and trailing whitespace tokens.  A Python value that    *)
(* may be None is a record [none, s].                                      *)
(***************************************************************************)
EXTENDS Integers, Sequences, FiniteSets, TLC

\* ------------------------------------------------------------------ bounds
\* most rows the index holds for one query
MaxPassages == 4
\* largest explicit top_n passed to rerank by a direct caller
MaxTopN == 3
MaxFormatted == 2
MaxEntities == 21
FormatCalls == 2
MaxCallers == 2

\* ---------------------------------------------------------- configuration
TOP_K_VECTOR_SEARCH == 10
TOP_N_RERANKED == 3
\* 0.3, in hundredths
MIN_SIMILARITY_THRESHOLD == 30
EMBEDDING_DIMENSION == 384

\* ------------------------------------------------------- python-like values
None == [none |-> TRUE, s |-> <<>>]
Str(tokens) == [none |-> FALSE, s |-> tokens]

IsWhitespace(tok) == tok \in {" ", "\n", "\t"}

RECURSIVE LStrip(_)
LStrip(s) ==
    IF s # <<>> /\ IsWhitespace(Head(s)) THEN LStrip(Tail(s)) ELSE s

RECURSIVE RStrip(_)
RStrip(s) ==
    IF s # <<>> /\ IsWhitespace(s[Len(s)])
    THEN RStrip(SubSeq(s, 1, Len(s) - 1))
    ELSE s

\* str.strip()
Strip(s) == RStrip(LStrip(s))

Min(a, b) == IF a <= b THEN a ELSE b
Max(a, b) == IF a >= b THEN a ELSE b

\* seq[:n], negative n counting from the end as Python does
SliceTo(seq, n) ==
    IF n >= 0
    THEN SubSeq(seq, 1, Min(n, Len(seq)))
    ELSE SubSeq(seq, 1, Max(Len(seq) + n, 0))

\* ------------------------------------------------------- fixed user messages
NO_RESULTS_ANSWER ==
    <<"I couldn't find any relevant information in my knowledge base for this question.">>
PIPELINE_ERROR_ANSWER ==
    <<"An error occurred while processing your question. Please try again.">>
NO_CONTEXT_ANSWER ==
    <<"I don't have any relevant information in my knowledge base to answer this question.">>
GENERATION_ERROR_ANSWER == <<"Error generating answer. Please try again.">>
GENERATION_TIMEOUT_ANSWER ==
    <<"Answer generation timed out. Please try again with a simpler question.">>

\* -------------------------------------------------- external collaborators
\* similarity scores the index can report (hundredths)
SimLevels == {20, 30, 40, 72, 85}
\* relevance scores the cross-encoder can report (tenths)
ScoreLevels == {3, 6, 9}
\* texts of the exceptions the collaborators raise
ExcTexts == {<<"ServiceUnavailable">>, <<"Connection", " ", "refused">>}
\* HTTP statuses of the generation service other than 200
BadStatuses == {"404", "500"}
\* completion texts of the generation service
Completions ==
    {<<" ", "Asparagus", " ", "is", " ", "likely", " ", "safe.", "\n">>,
     <<"No", " ", "information.">>,
     <<" ", "\n">>,
     <<>>}

\* passage fields stored in the graph, by node
SubstanceName(id) == "Asparagus"
SectionName(id) ==
    CASE id = 1 -> "AdverseEffects"
      [] id = 2 -> "Safety"
      [] id = 3 -> "Effectiveness"
      [] OTHER -> "Dosing"
EntitiesOf(id) == IF id = 3 THEN <<>> ELSE <<"Pregnancy">>

IsDescending(sims) ==
    \A i \in 1..(Len(sims) - 1) : sims[i] >= sims[i + 1]

\* rows of db.index.vector.queryNodes ... ORDER BY score DESC: at most top_k
\* rows, similarity descending; the rows are named by their rank
IndexRows(top_k) ==
    { [i \in 1..Len(sims) |->
          [node_id |-> i,
           substance_name |-> SubstanceName(i),
           section_name |-> SectionName(i),
           similarity_score |-> sims[i]]] :
      sims \in { s \in UNION { [1..n -> SimLevels] :
                               n \in 0..Min(MaxPassages, top_k) } :
                 IsDescending(s) } }

\* ------------------------------------------------------------ vector search
\* variant: a strict floor, dropping a score equal to the threshold
FilterByThreshold_Strict(rows, threshold) ==
    SelectSeq(rows, LAMBDA s : s.similarity_score > threshold)

\* sections = [s for s in sections if s['similarity_score'] >= threshold]
FilterByThreshold(rows, threshold) ==
    SelectSeq(rows, LAMBDA s : s.similarity_score >= threshold)

\* the dictionary build_subgraph_context returns for a section, given the
\* entity names get_section_entities returned; no cross_encoder_score key yet
build_subgraph_context(section, entities) ==
    [node_id |-> section.node_id,
     substance_name |-> section.substance_name,
     section_name |-> section.section_name,
     similarity_score |-> section.similarity_score,
     entities |-> entities,
     has_cross_encoder_score |-> FALSE,
     cross_encoder_score |-> 0]

\* ------------------------------------------------------------------ rerank
\* for subgraph, score in zip(subgraphs, scores): subgraph[...] = float(score)
AddScores(subgraphs, scores) ==
    [i \in 1..Len(subgraphs) |->
        IF i <= Len(scores)
        THEN [subgraphs[i] EXCEPT !.has_cross_encoder_score = TRUE,
                                  !.cross_encoder_score = scores[i]]
        ELSE subgraphs[i]]

\* variant: x placed before the elements of equal key, as an ascending sort
\* that is then reversed would
InsertDesc_BeforeEqual(sorted, x) ==
    LET ahead == {i \in 1..Len(sorted) :
                     sorted[i].cross_encoder_score > x.cross_encoder_score}
        k == Cardinality(ahead)
    IN  SubSeq(sorted, 1, k) \o <<x>> \o SubSeq(sorted, k + 1, Len(sorted))

\* x placed behind every element whose key is not smaller: equal keys keep
\* their order of arrival
InsertDesc(sorted, x) ==
    LET ahead == {i \in 1..Len(sorted) :
                     sorted[i].cross_encoder_score >= x.cross_encoder_score}
        k == Cardinality(ahead)
    IN  SubSeq(sorted, 1, k) \o <<x>> \o SubSeq(sorted, k + 1, Len(sorted))

RECURSIVE SortFrom(_, _, _)
SortFrom(seq, i, acc) ==
    IF i > Len(seq) THEN acc ELSE SortFrom(seq, i + 1, InsertDesc(acc, seq[i]))

\* variant: the list is truncated without being sorted
SortedByScoreDesc_Unsorted(subgraphs) == subgraphs

\* sorted(subgraphs, key=lambda x: x['cross_encoder_score'], reverse=True):
\* Python's sort is stable, also with reverse=True
SortedByScoreDesc(subgraphs) == SortFrom(subgraphs, 1, <<>>)

\* the top_n argument of rerank: None stands for config.TOP_N_RERANKED
NoTopN == [given |-> FALSE, n |-> 0]
TopN(n) == [given |-> TRUE, n |-> n]
\* variant: nothing is kept
EffectiveTopN_Zero(top_n) == 0

EffectiveTopN(top_n) == IF top_n.given THEN top_n.n ELSE TOP_N_RERANKED

\* variant: the sorted list is returned whole
rerank_Untruncated(subgraphs, scores, top_n) ==
    IF subgraphs = <<>>
    THEN <<>>
    ELSE SortedByScoreDesc(AddScores(subgraphs, scores))

\* the value rerank returns when cross_encoder.predict returned scores
rerank(subgraphs, scores, top_n) ==
    IF subgraphs = <<>>
    THEN <<>>
    ELSE SliceTo(SortedByScoreDesc(AddScores(subgraphs, scores)),
                 EffectiveTopN(top_n))

\* the caller's list after rerank: rerank writes the scores into the
\* dictionaries it was handed
SubgraphsAfterRerank(subgraphs, scores) ==
    IF subgraphs = <<>> THEN subgraphs ELSE AddScores(subgraphs, scores)

\* ----------------------------------------------------- context formatting
\* In this part a string is the sequence of its characters.
\* sep.join(parts)
RECURSIVE Join(_, _)
Join(sep, parts) ==
    IF parts = <<>> THEN <<>>
    ELSE IF Len(parts) = 1 THEN parts[1]
    ELSE parts[1] \o sep \o Join(sep, Tail(parts))

DigitChars == <<"0", "1", "2", "3", "4", "5", "6", "7", "8", "9">>

\* the decimal digits an f-string writes for a natural number
RECURSIVE Decimal(_)
Decimal(n) ==
    IF n < 10 THEN <<DigitChars[n + 1]>>
    ELSE Decimal(n \div 10) \o <<DigitChars[(n % 10) + 1]>>

\* ch * n
Repeat(ch, n) == [i \in 1..n |-> ch]

SEPARATOR_WIDTH == 80
CONTEXT_ENTITY_LIMIT == 15
PAIR_ENTITY_LIMIT == 20
MAX_CONTEXT_LENGTH == 8000
ENHANCED_CONTEXT_FORMAT == TRUE

\* "\n...(truncated)"
TRUNCATION_MARKER ==
    <<"\n", ".", ".", ".", "(", "t", "r", "u", "n", "c", "a", "t", "e",
      "d", ")">>

COMMA_SPACE == <<",", " ">>
NEWLINE == <<"\n">>

\* variant: the numbering goes on from the blocks of the calls before
FirstSourceNumber_Continued(earlier_calls) == earlier_calls + 1

\* enumerate(subgraphs, 1): every call numbers its blocks from 1
FirstSourceNumber(earlier_calls) == 1

\* the f-string of format_context for the i-th candidate
context_block(i, subgraph) ==
    <<"[", "S", "o", "u", "r", "c", "e", " ">>
    \o Decimal(i)
    \o <<"]", "\n", "S", "u", "b", "s", "t", "a", "n", "c", "e", ":", " ">>
    \o subgraph.substance_name
    \o <<"\n", "S", "e", "c", "t", "i", "o", "n", ":", " ">>
    \o subgraph.section_name
    \o <<"\n", "\n", "C", "o", "n", "t", "e", "n", "t", ":", "\n">>
    \o subgraph.section_text
    \o <<"\n", "\n", "R", "e", "l", "a", "t", "e", "d", " ", "M", "e", "d",
      "i", "c", "a", "l", " ", "T", "e", "r", "m", "s", ":", " ">>
    \o Join(COMMA_SPACE, SliceTo(subgraph.entities, CONTEXT_ENTITY_LIMIT))
    \o NEWLINE

\* '\n' + ('-' * 80) + '\n'.join(formatted_contexts); the box-drawing
\* character of the source is written "-" here, one character for one
full_context(subgraphs, first) ==
    NEWLINE
    \o Repeat("-", SEPARATOR_WIDTH)
    \o Join(NEWLINE, [i \in 1..Len(subgraphs) |->
                        context_block(first + i - 1, subgraphs[i])])

\* variant: a context of exactly the maximum length counts as too long
ExceedsLimit_OrEqual(full, max) == Len(full) >= max

\* if len(full_context) > config.MAX_CONTEXT_LENGTH:
ExceedsLimit(full, max) == Len(full) > max

\* variant: the marker is appended and nothing is cut
Truncate_KeepsAll(full, max) == full \o TRUNCATION_MARKER

\* full_context[:config.MAX_CONTEXT_LENGTH] + "\n...(truncated)"
Truncate(full, max) == SliceTo(full, max) \o TRUNCATION_MARKER

\* format_context(subgraphs) under the configured maximum; `first` is the
\* number of the first block
format_context(subgraphs, max, first) ==
    LET full == full_context(subgraphs, first)
    IN  IF ExceedsLimit(full, max) THEN Truncate(full, max) ELSE full

\* variant: every related term is joined
PairEntities_All(entities) == entities

\* subgraph['entities'][:20]
PairEntities(entities) == SliceTo(entities, PAIR_ENTITY_LIMIT)

\* prepare_pair(query, subgraph) under the configured format toggle
prepare_pair(subgraph, enhanced) ==
    IF enhanced
    THEN
         <<"S", "u", "b", "s", "t", "a", "n", "c", "e", ":", " ">>
         \o subgraph.substance_name
         \o <<"\n", "S", "e", "c", "t", "i", "o", "n", ":", " ">>
         \o subgraph.section_name
         \o <<"\n", "C", "o", "n", "t", "e", "n", "t", ":", " ">>
         \o subgraph.section_text
         \o <<"\n", "R", "e", "l", "a", "t", "e", "d", " ", "M", "e", "d",
           "i", "c", "a", "l", " ", "T", "e", "r", "m", "s", ":", " ">>
         \o Join(COMMA_SPACE, PairEntities(subgraph.entities))
    ELSE subgraph.section_text

\* --------------------------------------------------------- generate_answer
\* what requests.post / response.json() can do
GenOutcomes ==
    { [kind |-> "completion", status |-> "200", text |-> c] : c \in Completions }
    \cup { [kind |-> "no_response_key", status |-> "200", text |-> <<>>] }
    \cup { [kind |-> "bad_status", status |-> st, text |-> <<>>] : st \in BadStatuses }
    \cup { [kind |-> "timeout", status |-> "", text |-> <<"Read timed out.">>] }
    \cup { [kind |-> "exception", status |-> "", text |-> e] : e \in ExcTexts }
    \cup { [kind |-> "unparsable", status |-> "200", text |-> <<"Expecting value">>] }

\* variant: the attributions without the relevance score
ExtractSources_WithoutRelevance(subgraphs) ==
    [i \in 1..Len(subgraphs) |->
        [substance_name |-> subgraphs[i].substance_name,
         section_name |-> subgraphs[i].section_name,
         similarity_score |-> subgraphs[i].similarity_score,
         cross_encoder_score |-> 0]]

\* 'sources': one attribution per subgraph handed in
ExtractSources(subgraphs) ==
    [i \in 1..Len(subgraphs) |->
        [substance_name |-> subgraphs[i].substance_name,
         section_name |-> subgraphs[i].section_name,
         similarity_score |-> subgraphs[i].similarity_score,
         cross_encoder_score |->
            IF subgraphs[i].has_cross_encoder_score
            THEN subgraphs[i].cross_encoder_score
            ELSE 0]]

\* variant: no handler of its own for a timeout, which the general handler
\* then takes
GenerateFromService_NoTimeoutHandler(subgraphs, o) ==
    CASE o.kind = "bad_status" ->
            [answer |-> Str(GENERATION_ERROR_ANSWER),
             sources |-> <<>>,
             error |-> Str(<<"Ollama API error: ", o.status>>)]
      [] o.kind = "completion" ->
            [answer |-> Str(Strip(o.text)),
             sources |-> ExtractSources(subgraphs),
             error |-> None]
      [] o.kind = "no_response_key" ->
            [answer |-> Str(Strip(<<>>)),
             sources |-> ExtractSources(subgraphs),
             error |-> None]
      [] OTHER ->
            [answer |-> Str(GENERATION_ERROR_ANSWER),
             sources |-> <<>>,
             error |-> Str(<<"Error calling Ollama: ">> \o o.text)]

\* the dictionary generate_answer returns for a non-empty list, by what the
\* generation service did
GenerateFromService(subgraphs, o) ==
    CASE o.kind = "bad_status" ->
            [answer |-> Str(GENERATION_ERROR_ANSWER),
             sources |-> <<>>,
             error |-> Str(<<"Ollama API error: ", o.status>>)]
      [] o.kind = "completion" ->
            [answer |-> Str(Strip(o.text)),
             sources |-> ExtractSources(subgraphs),
             error |-> None]
      [] o.kind = "no_response_key" ->
            [answer |-> Str(Strip(<<>>)),
             sources |-> ExtractSources(subgraphs),
             error |-> None]
      [] o.kind = "timeout" ->
            [answer |-> Str(GENERATION_TIMEOUT_ANSWER),
             sources |-> <<>>,
             error |-> Str(<<"Ollama request timed out">>)]
      [] OTHER ->
            [answer |-> Str(GENERATION_ERROR_ANSWER),
             sources |-> <<>>,
             error |-> Str(<<"Error calling Ollama: ">> \o o.text)]

\* variant: no early return for an empty list
generate_answer_NoGuard(subgraphs, o) == GenerateFromService(subgraphs, o)

\* if not subgraphs: the early return; otherwise the generation service is asked
generate_answer(subgraphs, o) ==
    IF subgraphs = <<>>
    THEN [answer |-> Str(NO_CONTEXT_ANSWER), sources |-> <<>>, error |-> None]
    ELSE GenerateFromService(subgraphs, o)

\* variant: only the timeout is handled
HandledByGenerator_TimeoutOnly(o) == o.kind = "timeout"

\* except requests.exceptions.Timeout / except Exception as e: what
\* requests.post or response.json() raises is handled in generate_answer
HandledByGenerator(o) == o.kind \in {"timeout", "exception", "unparsable"}

\* number of requests.post calls generate_answer makes
GenerationCalls(subgraphs) == IF subgraphs = <<>> THEN 0 ELSE 1

\* variant: no early return for an empty list
ScorerCalls_Always(subgraphs) == 1

\* number of cross_encoder.predict calls rerank makes
ScorerCalls(subgraphs) == IF subgraphs = <<>> THEN 0 ELSE 1

\* ------------------------------------------- inputs of the formatting calls
\* the name of the i-th related term
EntityName(i) == <<"t">> \o Decimal(i)

\* numbers of related terms a passage can have: none, a few, one more than
\* format_context keeps, as many as prepare_pair keeps, and more
EntityCounts == {0, 2, CONTEXT_ENTITY_LIMIT + 1, PAIR_ENTITY_LIMIT, MaxEntities}

SectionTexts ==
    {<<>>,
     <<"S", "a", "f", "e", ".">>,
     <<"L", "i", "k", "e", "l", "y", " ", "s", "a", "f", "e", ".", "\n",
       "A", "v", "o", "i", "d", ".">>}

\* candidates with the fields the formatting reads
Passages ==
    [substance_name : {<<"A", "l", "o", "e">>},
     section_name : {<<"S", "a", "f", "e", "t", "y">>},
     section_text : SectionTexts,
     entities : { [i \in 1..n |-> EntityName(i)] : n \in EntityCounts }]

PassageLists == UNION { [1..n -> Passages] : n \in 0..MaxFormatted }

\* maxima around the length of the untruncated context of a list, the
\* shipped maximum, and one that cuts inside the separator line
ContextLimits(subgraphs) ==
    LET L == Len(full_context(subgraphs, 1))
    IN  {MAX_CONTEXT_LENGTH, SEPARATOR_WIDTH \div 2} \cup ((L - 2)..(L + 1))

\* ------------------------------------------------------------ construction
\* dimensions the vector index can have been created with
IndexDimensions == {EMBEDDING_DIMENSION, 768}

\* what the constructors can find: the graph database, its vector index, the
\* generation service and the two local models
Startups ==
    [neo4j : {"up", "down"},
     vector_index : {"present", "missing"},
     index_dimension : IndexDimensions,
     ollama : {"up", "bad_status", "down"},
     embedding_model : BOOLEAN,
     cross_encoder : BOOLEAN]

HealthyStartup ==
    [neo4j |-> "up",
     vector_index |-> "present",
     index_dimension |-> EMBEDDING_DIMENSION,
     ollama |-> "up",
     embedding_model |-> TRUE,
     cross_encoder |-> TRUE]

\* GraphDatabase.driver(uri, auth=...): whether it connects at once, and so
\* raises when the database is down, depends on the driver installed
DriverOutcomes(env) ==
    IF env.neo4j = "up" THEN {"created"} ELSE {"created", "raised"}

\* requests.get(.../api/tags, timeout=5) in LLMGenerator.__init__: the
\* RequestException of an unreachable service is caught and logged, a status
\* other than 200 is logged as a warning
ProbeFailure(env) ==
    CASE env.ollama = "down" ->
            [by |-> "generation", raised |-> TRUE, kind |-> "exception",
             text |-> <<"Connection", " ", "refused">>]
      [] env.ollama = "bad_status" ->
            [by |-> "generation", raised |-> FALSE, kind |-> "bad_status",
             text |-> <<>>]
      [] OTHER -> [by |-> "none", raised |-> FALSE, kind |-> "none", text |-> <<>>]

\* ------------------------------------------------------------------- state
VARIABLES
    pipeline,       \* routes.py: the global pipeline handle
    response,       \* the response to the HTTP request handled last
    callers,        \* concurrent callers of process_query: where each one is
    frames,         \* the locals of their process_query calls
    config,         \* config.MAX_CONTEXT_LENGTH and config.ENHANCED_CONTEXT_FORMAT
    formatted,      \* the strings format_context / prepare_pair returned so far
    startup,        \* the dependencies as they were when the pipeline was constructed
    entry,          \* the operation the caller invoked
    pc,             \* where that call is
    threshold,      \* config.MIN_SIMILARITY_THRESHOLD as configured
    top_n,          \* the top_n argument of the rerank call
    rows,           \* what vector_search returned (the unfiltered index rows)
    sections,       \* search_with_subgraphs: the sections that passed the filter
    subgraphs,      \* the subgraph contexts built so far / handed to rerank
    reranked,       \* what rerank returned
    llm_result,     \* what generate_answer returned
    result,         \* process_query: the result dictionary
    raised,         \* the exception that left the invoked operation, or None
    stages,         \* process_query: the stages entered, in order
    calls,          \* calls made to each external collaborator in this call
    failed,         \* the collaborator that failed in this call, if any
    now,            \* time.time(), counted from the start of the call
    latency         \* durations an external call can take

\* the serving layer and its concurrent callers
serving == <<pipeline, response, callers, frames>>

vars == <<serving, config, formatted, startup, entry, pc, threshold, top_n, rows, sections, subgraphs, reranked,
          llm_result, result, raised, stages, calls, failed, now, latency>>

\* no HTTP request has been handled
NoResponse == [route |-> "", status_code |-> 0, body |-> [none |-> TRUE]]

\* the routes module is loaded and not in use: pipeline = None
NoServer ==
    /\ pipeline = "None"
    /\ response = NoResponse
    /\ callers = <<>>
    /\ frames = <<>>

\* config.py as shipped
DefaultConfig ==
    [MAX_CONTEXT_LENGTH |-> MAX_CONTEXT_LENGTH,
     ENHANCED_CONTEXT_FORMAT |-> ENHANCED_CONTEXT_FORMAT]

NoCalls == [index |-> 0, lookup |-> 0, scorer |-> 0, generation |-> 0]
NoFailure == [by |-> "none", raised |-> FALSE, kind |-> "none", text |-> <<>>]
Failure(by, e) == [by |-> by, raised |-> TRUE, kind |-> "exception", text |-> e]
NoTiming == [k \in {} |-> 0]
\* generate_answer has returned nothing
NoLLMResult == [answer |-> None, sources |-> <<>>, error |-> None]

\* result = {'query': query, 'answer': None, 'sources': [], 'error': None, 'timing': {}}
EmptyResult == [answer |-> None, sources |-> <<>>, error |-> None, timing |-> NoTiming]

\* variant: the dictionary of the call before is used again
InitialResult_Reused(previous) == previous

\* result = {...}: a new dictionary in every call, whatever the call before
\* left
InitialResult(previous) == EmptyResult

\* result['timing'][key] = value
SetTiming(res, key, value) ==
    [res EXCEPT !.timing = (key :> value) @@ res.timing]

\* variant: the handler records the error and leaves the answer unset
OnPipelineException_NoAnswer(res, e, t) ==
    SetTiming([res EXCEPT !.error = Str(e)], "total", t)

\* except Exception as e: the handler of process_query, then the total time
OnPipelineException(res, e, t) ==
    SetTiming([res EXCEPT !.error = Str(e),
                          !.answer = Str(PIPELINE_ERROR_ANSWER)],
              "total", t)

\* variant: no short-circuit
ShortCircuit_Never(found) == FALSE

\* if not subgraphs:
ShortCircuit(found) == found = <<>>

\* variant: the empty result reported through the error field
OnNoSubgraphs_AsError(res, t) ==
    SetTiming([res EXCEPT !.answer = Str(NO_RESULTS_ANSWER),
                          !.error = Str(<<"No results">>)],
              "total", t)

\* the body of that if: the no-information result
OnNoSubgraphs(res, t) ==
    SetTiming([res EXCEPT !.answer = Str(NO_RESULTS_ANSWER)], "total", t)

\* variant: the merge without the generation time and the total time
MergeLLMResult_Untimed(res, answered, t_generation, t) ==
    [res EXCEPT !.answer = answered.answer,
                !.sources = answered.sources,
                !.error = answered.error]

\* result['answer'|'sources'|'error'] = llm_result[...], then the total time
MergeLLMResult(res, answered, t_generation, t) ==
    SetTiming(SetTiming([res EXCEPT !.answer = answered.answer,
                                    !.sources = answered.sources,
                                    !.error = answered.error],
                        "llm_generation", t_generation),
              "total", t)

\* the generation service failed (a non-200 status, a timeout, an exception)
GenerationFailure(o) ==
    CASE o.kind = "bad_status" ->
            [by |-> "generation", raised |-> FALSE, kind |-> o.kind, text |-> <<>>]
      [] o.kind \in {"timeout", "exception", "unparsable"} ->
            [by |-> "generation", raised |-> TRUE, kind |-> o.kind, text |-> o.text]
      [] OTHER -> NoFailure

\* variant: the loop stops after its first turn
ContextsBuilt_AfterFirst(built, passed) == Len(built) >= 1

\* for section in sections: the loop of search_with_subgraphs is over
ContextsBuilt(built, passed) == Len(built) = Len(passed)

\* TimingResponse(total=timing_data.get('total', 0.0), ...): the stage times
\* that were not recorded stay absent
TimingResponse(timing) ==
    IF "total" \in DOMAIN timing THEN timing ELSE ("total" :> 0) @@ timing

\* the QueryResponse the /query route builds from the result of process_query
QueryResponse(res) ==
    [answer |-> res.answer,
     sources |-> [i \in 1..Len(res.sources) |->
                    [substance_name |-> res.sources[i].substance_name,
                     section_name |-> res.sources[i].section_name,
                     similarity_score |-> res.sources[i].similarity_score,
                     cross_encoder_score |-> res.sources[i].cross_encoder_score]],
     timing |-> TimingResponse(res.timing),
     error |-> res.error]

\* variant: the handle is never found missing
NotInitialized_Never(handle) == FALSE

\* if pipeline is None:
NotInitialized(handle) == handle = "None"

\* the HealthResponse of the /health route
health_check(handle) ==
    IF NotInitialized(handle)
    THEN [route |-> "/health", status_code |-> 200,
          body |-> [status |-> "initializing",
                    message |-> "Pipeline is being initialized"]]
    ELSE [route |-> "/health", status_code |-> 200,
          body |-> [status |-> "healthy", message |-> "Backend is ready"]]

\* raise HTTPException(status_code=503, ...): the /query route without a pipeline
ServiceUnavailableResponse ==
    [route |-> "/query", status_code |-> 503,
     body |-> [detail |-> "Pipeline is not initialized. Please wait a moment and try again."]]

\* ------------------------------------------------------ concurrent callers
\* queries the callers ask, and what the store and the services answer to
\* each of them, the same at every time
Queries == {"asparagus", "ginger", "unknown"}

Row(i, sim) ==
    [node_id |-> i,
     substance_name |-> SubstanceName(i),
     section_name |-> SectionName(i),
     similarity_score |-> sim]

StoreRows(q) ==
    CASE q = "asparagus" -> <<Row(1, 85), Row(2, 72)>>
      [] q = "ginger" -> <<Row(1, 40)>>
      [] OTHER -> <<Row(1, 20)>>

ScoresFor(q) ==
    CASE q = "asparagus" -> <<3, 9>>
      [] OTHER -> <<6>>

OutcomeFor(q) ==
    CASE q = "asparagus" ->
            [kind |-> "completion", status |-> "200",
             text |-> <<"Asparagus", " ", "is", " ", "likely", " ", "safe.">>]
      [] OTHER -> [kind |-> "timeout", status |-> "", text |-> <<"Read timed out.">>]

\* the locals of one process_query call as the call begins
NewFrame == [subgraphs |-> <<>>, reranked |-> <<>>, result |-> EmptyResult]

\* variant: the intermediate lists and the result kept on the pipeline, one
\* place for every caller
Frame_OnPipeline(c) == 1

\* subgraphs, reranked_subgraphs, llm_result and result are locals of
\* process_query: every call has its own
Frame(c) == c

\* ------------------------------------------------- exceptions and returns
\* variant: process_query without its handler
PropagateException_Unhandled(e) ==
    /\ result' = result
    /\ pc' = "RAISED"
    /\ raised' = Str(e)

\* An exception e leaves a component.  Inside process_query the try block
\* encloses every stage and `except Exception` ends the call with the error
\* result; a component called directly has no handler and the exception
\* reaches the caller.
PropagateException(e) ==
    IF entry = "process_query"
    THEN /\ result' = OnPipelineException(result, e, now')
         /\ pc' = "DONE"
         /\ raised' = raised
    ELSE /\ result' = result
         /\ pc' = "RAISED"
         /\ raised' = Str(e)

\* search_with_subgraphs returns `found`; process_query records the stage's
\* time and either short-circuits or goes on to rerank
SearchReturns(found) ==
    /\ subgraphs' = found
    /\ raised' = raised
    /\ IF entry = "process_query"
       THEN IF ShortCircuit(found)
            THEN /\ result' = OnNoSubgraphs(SetTiming(result, "vector_search", now'), now')
                 /\ pc' = "DONE"
                 /\ stages' = stages
            ELSE /\ result' = SetTiming(result, "vector_search", now')
                 /\ pc' = "RERANK"
                 /\ stages' = Append(stages, "RERANK")
       ELSE /\ result' = result
            /\ pc' = "RETURNED"
            /\ stages' = stages

\* variant: the reranking time measured from the start of the call
RerankReturns_TimedFromStart(top) ==
    /\ reranked' = top
    /\ raised' = raised
    /\ result' = SetTiming(result, "reranking", now')
    /\ pc' = IF entry = "process_query" THEN "GENERATE" ELSE "RETURNED"
    /\ stages' = IF entry = "process_query" THEN Append(stages, "GENERATE") ELSE stages

\* rerank returns `top`; process_query records the stage's time and goes on
\* to generate
RerankReturns(top) ==
    /\ reranked' = top
    /\ raised' = raised
    /\ IF entry = "process_query"
       THEN /\ result' = SetTiming(result, "reranking", now' - now)
            /\ pc' = "GENERATE"
            /\ stages' = Append(stages, "GENERATE")
       ELSE /\ result' = result
            /\ pc' = "RETURNED"
            /\ stages' = stages

\* variant: a generation that ended in an error is tried again
GenerateReturns_RetryOnError(answered) ==
    /\ llm_result' = answered
    /\ raised' = raised
    /\ IF answered.error # None
       THEN /\ result' = result
            /\ pc' = pc
       ELSE /\ result' = MergeLLMResult(result, answered, now' - now, now')
            /\ pc' = IF entry = "process_query" THEN "DONE" ELSE "RETURNED"

\* generate_answer returns `answered`; process_query records the stage's
\* time, merges the answer into its result and records the total time
GenerateReturns(answered) ==
    /\ llm_result' = answered
    /\ raised' = raised
    /\ IF entry = "process_query"
       THEN /\ result' = MergeLLMResult(result, answered, now' - now, now')
            /\ pc' = "DONE"
       ELSE /\ result' = result
            /\ pc' = "RETURNED"

\* ----------------------------------------------------------------- actions
\* the caller invokes pipeline.process_query(query)
ProcessQueryStart ==
    /\ entry = "process_query"
    /\ pc = "IDLE"
    /\ pc' = "VECTOR_SEARCH"
    /\ result' = InitialResult(result)
    /\ stages' = <<"VECTOR_SEARCH">>
    /\ calls' = NoCalls
    /\ failed' = NoFailure
    /\ raised' = None
    /\ now' = 0
    /\ rows' = <<>>
    /\ sections' = <<>>
    /\ subgraphs' = <<>>
    /\ reranked' = <<>>
    /\ llm_result' = NoLLMResult
    /\ UNCHANGED <<serving, config, formatted, startup, entry, threshold,
                   top_n, latency>>

\* search_with_subgraphs up to its loop: vector_search (the embedding of the
\* query and the index query), the threshold filter and the return of [] when
\* nothing passed
VectorSearch ==
    /\ pc = "VECTOR_SEARCH"
    /\ \E d \in latency :
        /\ now' = now + d
        /\ calls' = [calls EXCEPT !.index = @ + 1]
        /\ \/ \E e \in ExcTexts :
                /\ failed' = Failure("index", e)
                /\ PropagateException(e)
                /\ UNCHANGED <<rows, sections, subgraphs, stages>>
           \/ \E r \in IndexRows(TOP_K_VECTOR_SEARCH) :
                /\ rows' = r
                /\ sections' = FilterByThreshold(r, threshold)
                /\ failed' = failed
                /\ IF sections' = <<>>
                   THEN SearchReturns(<<>>)
                   ELSE /\ pc' = "BUILD_CONTEXT"
                        /\ UNCHANGED <<result, subgraphs, raised, stages>>
    /\ UNCHANGED <<serving, config, formatted, startup, entry, threshold,
                   top_n, reranked, llm_result, latency>>

\* one turn of the loop of search_with_subgraphs: build_subgraph_context of
\* the next section, whose get_section_entities queries the graph; after the
\* last turn search_with_subgraphs returns the list
BuildSubgraphContext ==
    /\ pc = "BUILD_CONTEXT"
    /\ ~ContextsBuilt(subgraphs, sections)
    /\ \E d \in latency :
        /\ now' = now + d
        /\ calls' = [calls EXCEPT !.lookup = @ + 1]
        /\ LET section == sections[Len(subgraphs) + 1]
               built == Append(subgraphs,
                               build_subgraph_context(section,
                                                      EntitiesOf(section.node_id)))
           IN  \/ \E e \in ExcTexts :
                    /\ failed' = Failure("lookup", e)
                    /\ PropagateException(e)
                    /\ UNCHANGED <<subgraphs, stages>>
               \/ /\ failed' = failed
                  /\ IF ContextsBuilt(built, sections)
                     THEN SearchReturns(built)
                     ELSE /\ subgraphs' = built
                          /\ UNCHANGED <<result, pc, raised, stages>>
    /\ UNCHANGED <<serving, config, formatted, startup, entry, threshold,
                   top_n, rows, sections, reranked,
                   llm_result, latency>>

\* rerank(query, subgraphs, top_n): the scorer is asked once for all pairs,
\* unless the list is empty
Rerank ==
    /\ pc = "RERANK"
    /\ \E d \in latency :
        /\ now' = now + d
        /\ calls' = [calls EXCEPT !.scorer = @ + ScorerCalls(subgraphs)]
        /\ \/ /\ ScorerCalls(subgraphs) > 0
              /\ \E e \in ExcTexts :
                    /\ failed' = Failure("scorer", e)
                    /\ PropagateException(e)
                    /\ UNCHANGED <<subgraphs, reranked, stages>>
           \/ \E scores \in [1..Len(subgraphs) -> ScoreLevels] :
                /\ subgraphs' = SubgraphsAfterRerank(subgraphs, scores)
                /\ failed' = failed
                /\ RerankReturns(rerank(subgraphs, scores, top_n))
    /\ UNCHANGED <<serving, config, formatted, startup, entry, threshold,
                   top_n, rows, sections, llm_result, latency>>

\* generate_answer(query, reranked_subgraphs) and the merge of its result
Generate ==
    /\ pc = "GENERATE"
    /\ \E d \in latency, o \in GenOutcomes :
        /\ now' = now + d
        /\ calls' = [calls EXCEPT !.generation = @ + GenerationCalls(reranked)]
        /\ failed' = IF GenerationCalls(reranked) > 0 THEN GenerationFailure(o) ELSE failed
        /\ IF GenerationCalls(reranked) > 0 /\ GenerationFailure(o).raised
              /\ ~HandledByGenerator(o)
           THEN /\ PropagateException(o.text)
                /\ llm_result' = llm_result
           ELSE GenerateReturns(generate_answer(reranked, o))
    /\ UNCHANGED <<serving, config, formatted, startup, entry, threshold,
                   top_n, rows, sections, subgraphs, reranked,
                   stages, latency>>

\* self.vector_searcher = VectorSearcher(): the driver object and the
\* embedding model; neither the index nor its dimension is looked at
NewVectorSearcher ==
    /\ pc = "NEW_SEARCHER"
    /\ \E d \in DriverOutcomes(startup) :
        IF d = "raised"
        THEN /\ failed' = Failure("index", <<"ServiceUnavailable">>)
             /\ PropagateException(<<"ServiceUnavailable">>)
        ELSE IF ~startup.embedding_model
        THEN /\ failed' = Failure("embedding_model", <<"OSError">>)
             /\ PropagateException(<<"OSError">>)
        ELSE /\ pc' = "NEW_RANKER"
             /\ UNCHANGED <<failed, result, raised>>
    /\ UNCHANGED <<serving, config, formatted, startup, entry, threshold,
                   top_n, rows, sections, subgraphs,
                   reranked, llm_result, stages, calls, now, latency>>

\* self.reranker = CrossEncoderRanker(): the cross-encoder model
NewCrossEncoderRanker ==
    /\ pc = "NEW_RANKER"
    /\ IF ~startup.cross_encoder
       THEN /\ failed' = Failure("scorer", <<"OSError">>)
            /\ PropagateException(<<"OSError">>)
       ELSE /\ pc' = "NEW_GENERATOR"
            /\ UNCHANGED <<failed, result, raised>>
    /\ UNCHANGED <<serving, config, formatted, startup, entry, threshold,
                   top_n, rows, sections, subgraphs,
                   reranked, llm_result, stages, calls, now, latency>>

\* self.llm_generator = LLMGenerator(): the probe of the generation service,
\* whose failure is logged; then the pipeline is ready
NewLLMGenerator ==
    /\ pc = "NEW_GENERATOR"
    /\ failed' = ProbeFailure(startup)
    /\ pc' = "READY"
    /\ UNCHANGED <<serving, config, formatted, startup, entry, threshold,
                   top_n, rows, sections, subgraphs,
                   reranked, llm_result, result, raised, stages, calls, now,
                   latency>>

\* one call format_context(subgraphs) on the generator; the caller makes
\* FormatCalls of them with the same list
FormatContext ==
    /\ pc = "FORMAT_CONTEXT"
    /\ Len(formatted) < FormatCalls
    /\ formatted' = Append(formatted,
                           format_context(reranked, config.MAX_CONTEXT_LENGTH,
                                          FirstSourceNumber(Len(formatted))))
    /\ pc' = IF Len(formatted') = FormatCalls THEN "RETURNED" ELSE pc
    /\ UNCHANGED <<serving, config, startup, entry, threshold, top_n, rows, sections,
                   subgraphs, reranked, llm_result, result, raised, stages,
                   calls, failed, now, latency>>

\* one turn of the loop of rerank that prepares the pairs: prepare_pair of
\* the next candidate
PreparePair ==
    /\ pc = "PREPARE_PAIRS"
    /\ Len(formatted) < Len(subgraphs)
    /\ formatted' = Append(formatted,
                           prepare_pair(subgraphs[Len(formatted) + 1],
                                        config.ENHANCED_CONTEXT_FORMAT))
    /\ pc' = IF Len(formatted') = Len(subgraphs) THEN "RETURNED" ELSE pc
    /\ UNCHANGED <<serving, config, startup, entry, threshold, top_n, rows, sections,
                   subgraphs, reranked, llm_result, result, raised, stages,
                   calls, failed, now, latency>>

\* startup_event begins: QueryPipeline() is being constructed
StartupEvent ==
    /\ entry = "startup_event"
    /\ pc = "STARTING"
    /\ pc' = "NEW_SEARCHER"
    /\ UNCHANGED <<serving, config, formatted, startup, entry, threshold, top_n,
                   rows, sections, subgraphs, reranked, llm_result, result,
                   raised, stages, calls, failed, now, latency>>

\* set_pipeline(pipeline_instance): the constructed pipeline is installed
SetPipeline ==
    /\ entry = "startup_event"
    /\ pc = "READY"
    /\ pipeline' = "QueryPipeline"
    /\ pc' = "IDLE"
    /\ UNCHANGED <<response, callers, frames, config, formatted, startup, entry,
                   threshold, top_n, rows, sections, subgraphs, reranked,
                   llm_result, result, raised, stages, calls, failed, now,
                   latency>>

\* GET /health, before the startup or between two requests
HealthCheck ==
    /\ entry \in {"startup_event", "process_query"}
    /\ pc \in {"STARTING", "IDLE"}
    /\ response' = health_check(pipeline)
    /\ UNCHANGED <<pipeline, callers, frames, config, formatted, startup, entry,
                   pc, threshold, top_n, rows, sections, subgraphs, reranked,
                   llm_result, result, raised, stages, calls, failed, now,
                   latency>>

\* POST /query arrives: without a pipeline it is answered 503 at once,
\* otherwise the handler calls pipeline.process_query
QueryRequest ==
    /\ entry \in {"startup_event", "process_query"}
    /\ pc \in {"STARTING", "IDLE"}
    /\ IF NotInitialized(pipeline)
       THEN /\ response' = ServiceUnavailableResponse
            /\ UNCHANGED <<entry, pc, rows, sections, subgraphs, reranked,
                           llm_result, result, raised, stages, calls, failed, now>>
       ELSE /\ response' = NoResponse
            /\ entry' = "process_query"
            /\ pc' = "VECTOR_SEARCH"
            /\ result' = InitialResult(result)
            /\ stages' = <<"VECTOR_SEARCH">>
            /\ calls' = NoCalls
            /\ failed' = NoFailure
            /\ raised' = None
            /\ now' = 0
            /\ rows' = <<>>
            /\ sections' = <<>>
            /\ subgraphs' = <<>>
            /\ reranked' = <<>>
            /\ llm_result' = NoLLMResult
    /\ UNCHANGED <<pipeline, callers, frames, config, formatted, startup,
                   threshold, top_n, latency>>

\* process_query has returned to the /query handler, which answers with the
\* QueryResponse built from the result
QueryRespond ==
    /\ entry = "process_query"
    /\ pc = "DONE"
    /\ response' = [route |-> "/query", status_code |-> 200,
                    body |-> QueryResponse(result)]
    /\ pc' = "IDLE"
    /\ rows' = <<>>
    /\ sections' = <<>>
    /\ subgraphs' = <<>>
    /\ reranked' = <<>>
    /\ llm_result' = NoLLMResult
    /\ UNCHANGED <<pipeline, callers, frames, config, formatted, startup, entry,
                   threshold, top_n, result, raised, stages, calls, failed, now,
                   latency>>

\* shutdown_event: the connections are closed; the handle stays installed
ShutdownEvent ==
    /\ entry \in {"startup_event", "process_query"}
    /\ pc = "IDLE"
    /\ pc' = "STOPPED"
    /\ UNCHANGED <<serving, config, formatted, startup, entry, threshold, top_n,
                   rows, sections, subgraphs, reranked, llm_result, result,
                   raised, stages, calls, failed, now, latency>>

\* A caller c invokes process_query(query) on the shared pipeline while
\* other callers are inside their own calls.
CallerStart(c) ==
    /\ callers[c].pc = "IDLE"
    /\ \E q \in Queries :
          callers' = [callers EXCEPT ![c] = [pc |-> "VECTOR_SEARCH", query |-> q]]
    /\ frames' = [frames EXCEPT ![Frame(c)] = NewFrame]
    /\ UNCHANGED <<pipeline, response, config, formatted, startup, entry, pc,
                   threshold, top_n, rows, sections, subgraphs, reranked,
                   llm_result, result, raised, stages, calls, failed, now,
                   latency>>

\* the caller's search_with_subgraphs returns, and process_query
\* short-circuits or goes on
CallerSearch(c) ==
    /\ callers[c].pc = "VECTOR_SEARCH"
    /\ LET f == frames[Frame(c)]
           passed == FilterByThreshold(StoreRows(callers[c].query), threshold)
           found == [i \in 1..Len(passed) |->
                        build_subgraph_context(passed[i],
                                               EntitiesOf(passed[i].node_id))]
           timed == SetTiming(f.result, "vector_search", 0)
       IN  IF ShortCircuit(found)
           THEN /\ frames' = [frames EXCEPT ![Frame(c)] =
                                [f EXCEPT !.subgraphs = found,
                                          !.result = OnNoSubgraphs(timed, 0)]]
                /\ callers' = [callers EXCEPT ![c].pc = "DONE"]
           ELSE /\ frames' = [frames EXCEPT ![Frame(c)] =
                                [f EXCEPT !.subgraphs = found,
                                          !.result = timed]]
                /\ callers' = [callers EXCEPT ![c].pc = "RERANK"]
    /\ UNCHANGED <<pipeline, response, config, formatted, startup, entry, pc,
                   threshold, top_n, rows, sections, subgraphs, reranked,
                   llm_result, result, raised, stages, calls, failed, now,
                   latency>>

\* the caller's rerank returns
CallerRerank(c) ==
    /\ callers[c].pc = "RERANK"
    /\ LET f == frames[Frame(c)]
           scores == ScoresFor(callers[c].query)
       IN  frames' = [frames EXCEPT ![Frame(c)] =
                        [f EXCEPT !.subgraphs = SubgraphsAfterRerank(f.subgraphs, scores),
                                  !.reranked = rerank(f.subgraphs, scores, top_n),
                                  !.result = SetTiming(f.result, "reranking", 0)]]
    /\ callers' = [callers EXCEPT ![c].pc = "GENERATE"]
    /\ UNCHANGED <<pipeline, response, config, formatted, startup, entry, pc,
                   threshold, top_n, rows, sections, subgraphs, reranked,
                   llm_result, result, raised, stages, calls, failed, now,
                   latency>>

\* the caller's generate_answer returns and its result is merged
CallerGenerate(c) ==
    /\ callers[c].pc = "GENERATE"
    /\ LET f == frames[Frame(c)]
           answered == generate_answer(f.reranked, OutcomeFor(callers[c].query))
       IN  frames' = [frames EXCEPT ![Frame(c)] =
                        [f EXCEPT !.result = MergeLLMResult(f.result, answered, 0, 0)]]
    /\ callers' = [callers EXCEPT ![c].pc = "DONE"]
    /\ UNCHANGED <<pipeline, response, config, formatted, startup, entry, pc,
                   threshold, top_n, rows, sections, subgraphs, reranked,
                   llm_result, result, raised, stages, calls, failed, now,
                   latency>>

\* the caller has its result and may ask again
CallerReturn(c) ==
    /\ callers[c].pc = "DONE"
    /\ callers' = [callers EXCEPT ![c] = [pc |-> "IDLE", query |-> ""]]
    /\ UNCHANGED <<pipeline, response, frames, config, formatted, startup, entry,
                   pc, threshold, top_n, rows, sections, subgraphs, reranked,
                   llm_result, result, raised, stages, calls, failed, now,
                   latency>>

\* return result: the caller has the result and may ask again
ProcessQueryReturn ==
    /\ entry = "process_query"
    /\ pc = "DONE"
    /\ pc' = "IDLE"
    /\ rows' = <<>>
    /\ sections' = <<>>
    /\ subgraphs' = <<>>
    /\ reranked' = <<>>
    /\ llm_result' = NoLLMResult
    /\ UNCHANGED <<serving, config, formatted, startup, entry, threshold,
                   top_n, result, raised, stages, calls,
                   failed, now, latency>>

\* ---------------------------------------------------------- specifications
\* what no call has touched yet
Fresh ==
    /\ config = DefaultConfig
    /\ formatted = <<>>
    /\ NoServer
    /\ startup = HealthyStartup
    /\ rows = <<>>
    /\ sections = <<>>
    /\ reranked = <<>>
    /\ llm_result = NoLLMResult
    /\ result = EmptyResult
    /\ raised = None
    /\ stages = <<>>
    /\ calls = NoCalls
    /\ failed = NoFailure
    /\ now = 0
    /\ latency = {1}

\* a constructed pipeline serving process_query calls, configured as config.py
Init ==
    /\ entry = "process_query"
    /\ pc = "IDLE"
    /\ threshold = MIN_SIMILARITY_THRESHOLD
    /\ top_n = TopN(TOP_N_RERANKED)
    /\ subgraphs = <<>>
    /\ Fresh

Next ==
    \/ ProcessQueryStart
    \/ VectorSearch
    \/ BuildSubgraphContext
    \/ Rerank
    \/ Generate
    \/ ProcessQueryReturn

Spec == Init /\ [][Next]_vars

\* candidate lists a caller hands to rerank: subgraph contexts in vector
\* similarity order
CandidateLists ==
    { [i \in 1..Len(r) |-> build_subgraph_context(r[i], EntitiesOf(r[i].node_id))] :
      r \in IndexRows(MaxPassages) }

TopNArgs == {NoTopN} \cup { TopN(n) : n \in 0..MaxTopN }

\* one direct call rerank(query, subgraphs, top_n), as test_reranker makes
InitRerank ==
    /\ entry = "rerank"
    /\ pc = "RERANK"
    /\ threshold = MIN_SIMILARITY_THRESHOLD
    /\ top_n \in TopNArgs
    /\ subgraphs \in CandidateLists
    /\ Fresh

NextRerank == Rerank

SpecRerank == InitRerank /\ [][NextRerank]_vars

\* thresholds the filter is configured with
Thresholds == {MIN_SIMILARITY_THRESHOLD, 50}

\* one direct call search_with_subgraphs(query, top_k), as test_vector_search makes
InitSearch ==
    /\ entry = "search_with_subgraphs"
    /\ pc = "VECTOR_SEARCH"
    /\ threshold \in Thresholds
    /\ top_n = NoTopN
    /\ subgraphs = <<>>
    /\ Fresh

NextSearch ==
    \/ VectorSearch
    \/ BuildSubgraphContext

SpecSearch == InitSearch /\ [][NextSearch]_vars

\* durations time.time() can measure for an external call
Latencies == {0, 1, 2}

\* a threshold that leaves few passages, for the calls whose durations vary
TimingThreshold == 85

\* a constructed pipeline serving process_query calls whose external calls
\* take varying time
InitTiming ==
    /\ entry = "process_query"
    /\ pc = "IDLE"
    /\ config = DefaultConfig
    /\ formatted = <<>>
    /\ NoServer
    /\ startup = HealthyStartup
    /\ threshold = TimingThreshold
    /\ top_n = TopN(TOP_N_RERANKED)
    /\ subgraphs = <<>>
    /\ rows = <<>>
    /\ sections = <<>>
    /\ reranked = <<>>
    /\ llm_result = NoLLMResult
    /\ result = EmptyResult
    /\ raised = None
    /\ stages = <<>>
    /\ calls = NoCalls
    /\ failed = NoFailure
    /\ now = 0
    /\ latency = Latencies

SpecTiming == InitTiming /\ [][Next]_vars

\* ranked lists a caller hands to generate_answer: what rerank returns for
\* the candidate lists, the empty list among them
RankedLists ==
    UNION { { rerank(c, scores, NoTopN) : scores \in [1..Len(c) -> ScoreLevels] } :
            c \in CandidateLists }

\* one direct call generate_answer(query, subgraphs), as test_llm_generator makes
InitGenerate ==
    /\ entry = "generate_answer"
    /\ pc = "GENERATE"
    /\ config = DefaultConfig
    /\ formatted = <<>>
    /\ NoServer
    /\ startup = HealthyStartup
    /\ threshold = MIN_SIMILARITY_THRESHOLD
    /\ top_n = NoTopN
    /\ rows = <<>>
    /\ sections = <<>>
    /\ subgraphs = <<>>
    /\ reranked \in RankedLists
    /\ llm_result = NoLLMResult
    /\ result = EmptyResult
    /\ raised = None
    /\ stages = <<>>
    /\ calls = NoCalls
    /\ failed = NoFailure
    /\ now = 0
    /\ latency = {1}

NextGenerate == Generate

SpecGenerate == InitGenerate /\ [][NextGenerate]_vars

\* QueryPipeline() under every combination of what the constructors can find
InitStartup ==
    /\ config = DefaultConfig
    /\ formatted = <<>>
    /\ NoServer
    /\ startup \in Startups
    /\ entry = "QueryPipeline"
    /\ pc = "NEW_SEARCHER"
    /\ threshold = MIN_SIMILARITY_THRESHOLD
    /\ top_n = TopN(TOP_N_RERANKED)
    /\ subgraphs = <<>>
    /\ rows = <<>>
    /\ sections = <<>>
    /\ reranked = <<>>
    /\ llm_result = NoLLMResult
    /\ result = EmptyResult
    /\ raised = None
    /\ stages = <<>>
    /\ calls = NoCalls
    /\ failed = NoFailure
    /\ now = 0
    /\ latency = {1}

NextStartup ==
    \/ NewVectorSearcher
    \/ NewCrossEncoderRanker
    \/ NewLLMGenerator

SpecStartup == InitStartup /\ [][NextStartup]_vars

\* FormatCalls direct calls generator.format_context(subgraphs) with one list
InitFormat ==
    /\ entry = "format_context"
    /\ pc = "FORMAT_CONTEXT"
    /\ reranked \in PassageLists
    /\ \E m \in ContextLimits(reranked) :
          config = [MAX_CONTEXT_LENGTH |-> m,
                    ENHANCED_CONTEXT_FORMAT |-> ENHANCED_CONTEXT_FORMAT]
    /\ formatted = <<>>
    /\ NoServer
    /\ startup = HealthyStartup
    /\ threshold = MIN_SIMILARITY_THRESHOLD
    /\ top_n = NoTopN
    /\ subgraphs = <<>>
    /\ rows = <<>>
    /\ sections = <<>>
    /\ llm_result = NoLLMResult
    /\ result = EmptyResult
    /\ raised = None
    /\ stages = <<>>
    /\ calls = NoCalls
    /\ failed = NoFailure
    /\ now = 0
    /\ latency = {1}

NextFormat == FormatContext

SpecFormat == InitFormat /\ [][NextFormat]_vars

\* the pairs rerank prepares for a non-empty list, under either format
InitPair ==
    /\ entry = "prepare_pair"
    /\ pc = "PREPARE_PAIRS"
    /\ subgraphs \in PassageLists \ {<<>>}
    /\ config \in [MAX_CONTEXT_LENGTH : {MAX_CONTEXT_LENGTH},
                    ENHANCED_CONTEXT_FORMAT : BOOLEAN]
    /\ formatted = <<>>
    /\ NoServer
    /\ startup = HealthyStartup
    /\ threshold = MIN_SIMILARITY_THRESHOLD
    /\ top_n = NoTopN
    /\ reranked = <<>>
    /\ rows = <<>>
    /\ sections = <<>>
    /\ llm_result = NoLLMResult
    /\ result = EmptyResult
    /\ raised = None
    /\ stages = <<>>
    /\ calls = NoCalls
    /\ failed = NoFailure
    /\ now = 0
    /\ latency = {1}

NextPair == PreparePair

SpecPair == InitPair /\ [][NextPair]_vars

\* what the application can find at startup: everything in order, the
\* generation service down, the cross-encoder model missing
ServeStartups ==
    {HealthyStartup,
     [HealthyStartup EXCEPT !.ollama = "down"],
     [HealthyStartup EXCEPT !.cross_encoder = FALSE]}

\* the application: startup_event, then the routes serving one request at a
\* time (the handlers are coroutines that call the pipeline synchronously)
InitServe ==
    /\ entry = "startup_event"
    /\ pc = "STARTING"
    /\ NoServer
    /\ config = DefaultConfig
    /\ formatted = <<>>
    /\ startup \in ServeStartups
    /\ threshold = MIN_SIMILARITY_THRESHOLD
    /\ top_n = TopN(TOP_N_RERANKED)
    /\ subgraphs = <<>>
    /\ rows = <<>>
    /\ sections = <<>>
    /\ reranked = <<>>
    /\ llm_result = NoLLMResult
    /\ result = EmptyResult
    /\ raised = None
    /\ stages = <<>>
    /\ calls = NoCalls
    /\ failed = NoFailure
    /\ now = 0
    /\ latency = {1}

NextServe ==
    \/ StartupEvent
    \/ NewVectorSearcher
    \/ NewCrossEncoderRanker
    \/ NewLLMGenerator
    \/ SetPipeline
    \/ HealthCheck
    \/ QueryRequest
    \/ VectorSearch
    \/ BuildSubgraphContext
    \/ Rerank
    \/ Generate
    \/ QueryRespond
    \/ ShutdownEvent

SpecServe == InitServe /\ [][NextServe]_vars

\* MaxCallers callers sharing one constructed pipeline; the durations are
\* not looked at and the clock stands still
InitConcurrent ==
    /\ entry = "process_query"
    /\ pc = "SHARED"
    /\ pipeline = "QueryPipeline"
    /\ response = NoResponse
    /\ callers = [c \in 1..MaxCallers |-> [pc |-> "IDLE", query |-> ""]]
    /\ frames = [c \in 1..MaxCallers |-> NewFrame]
    /\ config = DefaultConfig
    /\ formatted = <<>>
    /\ startup = HealthyStartup
    /\ threshold = MIN_SIMILARITY_THRESHOLD
    /\ top_n = TopN(TOP_N_RERANKED)
    /\ subgraphs = <<>>
    /\ rows = <<>>
    /\ sections = <<>>
    /\ reranked = <<>>
    /\ llm_result = NoLLMResult
    /\ result = EmptyResult
    /\ raised = None
    /\ stages = <<>>
    /\ calls = NoCalls
    /\ failed = NoFailure
    /\ now = 0
    /\ latency = {1}

NextConcurrent ==
    \E c \in 1..MaxCallers :
        \/ CallerStart(c)
        \/ CallerSearch(c)
        \/ CallerRerank(c)
        \/ CallerGenerate(c)
        \/ CallerReturn(c)

SpecConcurrent == InitConcurrent /\ [][NextConcurrent]_vars

\* ================================================================== claims
Range(seq) == { seq[i] : i \in 1..Len(seq) }
NodeIds(seq) == [i \in 1..Len(seq) |-> seq[i].node_id]
Sims(seq) == [i \in 1..Len(seq) |-> seq[i].similarity_score]
Scores(seq) == [i \in 1..Len(seq) |-> seq[i].cross_encoder_score]
IsPrefix(a, b) == Len(a) <= Len(b) /\ a = SubSeq(b, 1, Len(a))
StageOrder == <<"VECTOR_SEARCH", "RERANK", "GENERATE">>

\* process_query ended on the short-circuit: the search answered, and nothing
\* passed the threshold
EndedWithoutResults ==
    /\ pc = "DONE"
    /\ calls.index = 1
    /\ failed = NoFailure
    /\ sections = <<>>

\* C1 as stated: process_query returns, and after any exception raised by the
\* vector search, the related-terms lookup, the reranker or the generator the
\* answer is the generic pipeline error message and error is the exception's
\* text.
C1_AnyExceptionGivesGenericError ==
    /\ raised = None
    /\ (pc = "DONE" /\ failed.raised) =>
          /\ result.answer = Str(PIPELINE_ERROR_ANSWER)
          /\ result.error = Str(failed.text)

\* C1, amended: process_query never lets an exception out.  An exception
\* raised by the vector search, the related-terms lookup or the reranker gives
\* the generic pipeline error answer with error = the exception's text; an
\* exception raised by the generation service is handled inside
\* generate_answer and gives the generator's own fixed answer (generation
\* error or timeout) with the generator's diagnostic string as error.
C1_ExceptionsNeverLeave ==
    /\ raised = None
    /\ pc # "RAISED"
    /\ (pc = "DONE" /\ failed.raised /\ failed.by \in {"index", "lookup", "scorer"}) =>
          /\ result.answer = Str(PIPELINE_ERROR_ANSWER)
          /\ result.error = Str(failed.text)
    /\ (pc = "DONE" /\ failed.raised /\ failed.by = "generation") =>
          \/ /\ result.answer = Str(GENERATION_TIMEOUT_ANSWER)
             /\ result.error = Str(<<"Ollama request timed out">>)
          \/ /\ result.answer = Str(GENERATION_ERROR_ANSWER)
             /\ result.error = Str(<<"Error calling Ollama: ">> \o failed.text)

C1_Witness ==
    /\ pc = "DONE"
    /\ failed.raised
    /\ failed.by = "generation"
    /\ result.answer = Str(GENERATION_ERROR_ANSWER)
    /\ raised = None

\* C2: every result process_query returns has a populated answer: not None
\* and not the empty string.
C2_AnswerAlwaysPopulated ==
    pc = "DONE" => (~result.answer.none /\ result.answer.s # <<>>)

\* C3: whenever error is set in a result, the answer is one of the three fixed
\* fallback messages (pipeline error, generation error, generation timeout).
C3_ErrorComesWithFallbackAnswer ==
    ~result.error.none =>
        result.answer \in {Str(PIPELINE_ERROR_ANSWER),
                           Str(GENERATION_ERROR_ANSWER),
                           Str(GENERATION_TIMEOUT_ANSWER)}

C3_Witness ==
    /\ pc = "DONE"
    /\ ~result.error.none
    /\ result.answer = Str(GENERATION_TIMEOUT_ANSWER)

\* C4: when the vector search yields nothing (no rows, or none at or above
\* the threshold) the call goes straight to the no-information result: the
\* rerank and generate stages are not entered, and neither the scorer nor the
\* generation service is called.
C4_EmptySearchSkipsRerankAndGenerate ==
    /\ (pc # "IDLE" /\ sections = <<>>) =>
          /\ pc \notin {"RERANK", "GENERATE"}
          /\ calls.scorer = 0
          /\ calls.generation = 0
    /\ EndedWithoutResults =>
          /\ stages = <<"VECTOR_SEARCH">>
          /\ result.answer = Str(NO_RESULTS_ANSWER)

C4_Witness ==
    /\ EndedWithoutResults
    /\ rows # <<>>
    /\ calls.scorer = 0
    /\ calls.generation = 0

\* C5: an empty search result is not an error: the result then has
\* error = None, no sources and the fixed no-information answer; and error is
\* set only when a collaborator failed.
C5_EmptyResultIsNotAnError ==
    /\ EndedWithoutResults =>
          /\ result.error = None
          /\ result.sources = <<>>
          /\ result.answer = Str(NO_RESULTS_ANSWER)
    /\ ~result.error.none => failed.by # "none"

C5_Witness ==
    /\ EndedWithoutResults
    /\ rows = <<>>
    /\ result.error = None

\* position of a pc value in the order of the stages of one call
StageRank(p) ==
    CASE p = "IDLE" -> 0
      [] p \in {"VECTOR_SEARCH", "BUILD_CONTEXT"} -> 1
      [] p = "RERANK" -> 2
      [] p = "GENERATE" -> 3
      [] OTHER -> 4

C6_StageInvariant ==
    /\ IsPrefix(stages, StageOrder)
    /\ calls.index <= 1 /\ calls.scorer <= 1 /\ calls.generation <= 1
    /\ pc \in {"VECTOR_SEARCH", "BUILD_CONTEXT"} =>
          /\ stages = <<"VECTOR_SEARCH">>
          /\ calls.scorer = 0 /\ calls.generation = 0
    /\ pc = "RERANK" =>
          /\ stages = <<"VECTOR_SEARCH", "RERANK">>
          /\ sections # <<>>
          /\ Len(subgraphs) = Len(sections)
          /\ NodeIds(subgraphs) = NodeIds(sections)
          /\ calls.lookup = Len(sections)
          /\ calls.scorer = 0 /\ calls.generation = 0
    /\ pc = "GENERATE" =>
          /\ stages = StageOrder
          /\ calls.scorer = 1 /\ calls.generation = 0
          /\ \A i \in 1..Len(subgraphs) : subgraphs[i].has_cross_encoder_score
          /\ reranked # <<>>

\* within a call the position only moves forward; a new call starts from IDLE
C6_StageStep ==
    \/ StageRank(pc') >= StageRank(pc)
    \/ pc = "DONE" /\ pc' = "IDLE"

\* C6: the stages of one call run in the order VECTOR_SEARCH, RERANK,
\* GENERATE, each entered at most once and never re-entered: rerank starts
\* only when every passage that passed the filter has its context built,
\* generation only when rerank has scored the candidates and returned.
C6_StagesRunInOrder == []C6_StageInvariant /\ [][C6_StageStep]_vars

C6_Witness ==
    /\ pc = "DONE"
    /\ stages = StageOrder
    /\ calls.lookup > 1
    /\ calls.generation = 1

\* C7: rerank of a non-empty list returns min(top_n, len) candidates, sorted
\* by relevance score descending, all of them taken from the input, and no
\* dropped candidate scores higher than a retained one; scores [0.6, 0.9, 0.3]
\* with top_n = 2 give [item2, item1].
C7_RerankKeepsTopNSorted ==
    (pc = "RETURNED" /\ subgraphs # <<>>) =>
        /\ Len(reranked) = Min(EffectiveTopN(top_n), Len(subgraphs))
        /\ \A i, j \in 1..Len(reranked) :
              i < j => reranked[i].cross_encoder_score >= reranked[j].cross_encoder_score
        /\ Range(reranked) \subseteq Range(subgraphs)
        /\ Cardinality(Range(NodeIds(reranked))) = Len(reranked)
        /\ \A c \in Range(subgraphs) \ Range(reranked) :
              \A r \in Range(reranked) : c.cross_encoder_score <= r.cross_encoder_score
        /\ (Scores(subgraphs) = <<6, 9, 3>> /\ top_n = TopN(2)) =>
              NodeIds(reranked) = <<2, 1>>

C7_Witness ==
    /\ pc = "RETURNED"
    /\ Scores(subgraphs) = <<6, 9, 3>>
    /\ top_n = TopN(2)
    /\ NodeIds(reranked) = <<2, 1>>

\* C8: rerank is stable: two retained candidates of equal relevance score
\* stand in the output in their input order, which is the vector-similarity
\* order.
C8_RerankIsStable ==
    pc = "RETURNED" =>
        \A i, j \in 1..Len(reranked) :
            (i < j /\ reranked[i].cross_encoder_score = reranked[j].cross_encoder_score) =>
                /\ reranked[i].node_id < reranked[j].node_id
                /\ reranked[i].similarity_score >= reranked[j].similarity_score

C8_Witness ==
    /\ pc = "RETURNED"
    /\ Len(reranked) = 3
    /\ reranked[2].cross_encoder_score = reranked[3].cross_encoder_score
    /\ NodeIds(reranked) = <<3, 1, 2>>

\* C9: rerank of an empty list returns the empty list, whatever top_n is,
\* raising nothing and never calling the scorer.
C9_RerankOfNothing ==
    (pc # "RERANK" /\ subgraphs = <<>>) =>
        /\ pc = "RETURNED"
        /\ reranked = <<>>
        /\ raised = None
        /\ calls.scorer = 0

C9_Witness ==
    /\ pc = "RETURNED"
    /\ subgraphs = <<>>
    /\ top_n = NoTopN
    /\ reranked = <<>>

\* C10: search_with_subgraphs returns exactly the index rows whose similarity
\* is not below the threshold, in the index's order: a score equal to the
\* threshold is kept, one below it is dropped; [0.85, 0.72, 0.40] gives 3
\* passages at threshold 0.3 and 2 at 0.5.
C10_SearchKeepsRowsAtOrAboveThreshold ==
    pc = "RETURNED" =>
        LET kept == {i \in 1..Len(rows) : rows[i].similarity_score >= threshold}
        IN  /\ Len(subgraphs) = Cardinality(kept)
            /\ Range(NodeIds(subgraphs)) = kept
            /\ \A i, j \in 1..Len(subgraphs) :
                  i < j => subgraphs[i].node_id < subgraphs[j].node_id
            /\ \A i \in 1..Len(subgraphs) :
                  /\ subgraphs[i].similarity_score =
                        rows[subgraphs[i].node_id].similarity_score
                  /\ subgraphs[i].similarity_score >= threshold
            /\ (Sims(rows) = <<85, 72, 40>> /\ threshold = 30) => Len(subgraphs) = 3
            /\ (Sims(rows) = <<85, 72, 40>> /\ threshold = 50) => Len(subgraphs) = 2

C10_Witness ==
    /\ pc = "RETURNED"
    /\ Sims(rows) = <<85, 72, 40>>
    /\ threshold = 50
    /\ Sims(subgraphs) = <<85, 72>>


\* C11: generate_answer called with an empty ranked list returns the fixed
\* no-information answer, an empty source list and no error, and has made no
\* call to the generation service.
C11_EmptyListAnsweredWithoutService ==
    (pc = "RETURNED" /\ reranked = <<>>) =>
        /\ llm_result = [answer |-> Str(NO_CONTEXT_ANSWER),
                         sources |-> <<>>,
                         error |-> None]
        /\ calls.generation = 0
        /\ raised = None

C11_Witness ==
    /\ entry = "generate_answer"
    /\ pc = "RETURNED"
    /\ reranked = <<>>
    /\ llm_result.answer = Str(NO_CONTEXT_ANSWER)


\* C12: when the generation service times out during a query that reached
\* generation, process_query still returns (nothing is raised): the result's
\* error is set and its answer is the fixed timeout fallback.
C12_TimeoutGivesTimeoutFallback ==
    (entry = "process_query" /\ failed.by = "generation" /\ failed.kind = "timeout") =>
        /\ pc \in {"DONE", "IDLE"}
        /\ raised = None
        /\ result.error # None
        /\ result.answer = Str(GENERATION_TIMEOUT_ANSWER)

C12_Witness ==
    /\ entry = "process_query"
    /\ pc = "DONE"
    /\ stages = StageOrder
    /\ failed.by = "generation"
    /\ failed.kind = "timeout"
    /\ result.error = Str(<<"Ollama request timed out">>)

\* C13: generate_answer never raises for a non-empty list: a network error,
\* a timeout, a non-200 status and an unparsable body each end in a returned
\* value with one of the fixed error answers and an error diagnostic.
C13_GeneratorFailureIsReturned ==
    /\ entry = "generate_answer" => pc \in {"GENERATE", "RETURNED"} /\ raised = None
    /\ (entry = "generate_answer" /\ reranked # <<>> /\ failed.by = "generation") =>
        /\ pc = "RETURNED"
        /\ llm_result.answer \in {Str(GENERATION_ERROR_ANSWER),
                                  Str(GENERATION_TIMEOUT_ANSWER)}
        /\ llm_result.error # None
        /\ llm_result.error.s # <<>>

C13_Witness ==
    /\ entry = "generate_answer"
    /\ pc = "RETURNED"
    /\ reranked # <<>>
    /\ failed.kind = "unparsable"
    /\ llm_result.answer = Str(GENERATION_ERROR_ANSWER)


Recorded(timing, key) == IF key \in DOMAIN timing THEN timing[key] ELSE 0

\* C14: with a clock that never goes back, the total time of every completed
\* process_query call is at least the sum of the recorded vector-search,
\* reranking and generation times, a time not recorded counting as zero.
C14_TotalCoversStageTimes ==
    (entry = "process_query" /\ pc = "DONE") =>
        /\ "total" \in DOMAIN result.timing
        /\ result.timing["total"] >=
               Recorded(result.timing, "vector_search")
             + Recorded(result.timing, "reranking")
             + Recorded(result.timing, "llm_generation")

C14_Witness ==
    /\ entry = "process_query"
    /\ pc = "DONE"
    /\ stages = StageOrder
    /\ DOMAIN result.timing = {"vector_search", "reranking", "llm_generation", "total"}
    /\ result.timing["vector_search"] = 3
    /\ result.timing["reranking"] = 2
    /\ result.timing["llm_generation"] = 1
    /\ result.timing["total"] = 6


\* C15: every result process_query returns carries the total time, on every
\* path (no results, normal completion, generator failure, caught exception),
\* and every stage that ran to its end has its duration recorded: the search
\* unless the index or the lookup raised, reranking and generation once the
\* call reached generation.
C15_TimingsRecorded ==
    (entry = "process_query" /\ pc = "DONE") =>
        /\ "total" \in DOMAIN result.timing
        /\ failed.by \notin {"index", "lookup"} =>
                "vector_search" \in DOMAIN result.timing
        /\ stages = StageOrder =>
                {"reranking", "llm_generation"} \subseteq DOMAIN result.timing

C15_Witness ==
    /\ entry = "process_query"
    /\ pc = "DONE"
    /\ failed.by = "generation"
    /\ failed.kind = "bad_status"
    /\ DOMAIN result.timing = {"vector_search", "reranking", "llm_generation", "total"}


\* C16: a failure of the related-terms lookup for one passage does not abort
\* search_with_subgraphs: nothing is raised, the loop goes on, and the call
\* returns every passage that passed the threshold, the passage whose lookup
\* failed with an empty list of terms.
C16_LookupFailureDoesNotAbortSearch ==
    (entry = "search_with_subgraphs" /\ failed.by = "lookup") =>
        /\ pc # "RAISED"
        /\ raised = None
        /\ pc = "RETURNED" => NodeIds(subgraphs) = NodeIds(sections)


\* C17: on a successful generation the sources are derived from the ranked
\* candidates alone: one entry per candidate, in the same order, carrying the
\* candidate's substance name, section name, similarity score and relevance
\* score, whatever the completion text is.
C17_SourcesMirrorRankedCandidates ==
    (entry = "process_query" /\ pc = "DONE" /\ stages = StageOrder
        /\ failed.by = "none") =>
        /\ result.sources = llm_result.sources
        /\ Len(result.sources) = Len(reranked)
        /\ \A i \in 1..Len(reranked) :
              result.sources[i] =
                 [substance_name |-> reranked[i].substance_name,
                  section_name |-> reranked[i].section_name,
                  similarity_score |-> reranked[i].similarity_score,
                  cross_encoder_score |-> reranked[i].cross_encoder_score]

C17_Witness ==
    /\ entry = "process_query"
    /\ pc = "DONE"
    /\ failed.by = "none"
    /\ Len(reranked) = 3
    /\ Len(result.sources) = 3
    /\ NodeIds(reranked) = <<2, 3, 1>>
    /\ result.sources[1].cross_encoder_score = 9
    /\ result.sources[1].similarity_score = 72
    /\ result.answer # None
    /\ result.answer.s # <<>>


C18_CalledAtMostOnce ==
    /\ calls.index <= 1
    /\ calls.scorer <= 1
    /\ calls.generation <= 1
    /\ (entry = "process_query" /\ failed.by # "none") => pc \in {"DONE", "IDLE"}

C18_NoCallAfterFailure ==
    (failed.by # "none" /\ calls' # calls) => (pc = "IDLE" /\ calls' = NoCalls)

\* C18: no retries: within one process_query call the index query, the scorer
\* and the generation service are each called at most once, and once one of
\* the collaborators has failed no further external call is made before the
\* result is returned.
C18_NoRetries == []C18_CalledAtMostOnce /\ [][C18_NoCallAfterFailure]_vars

C18_Witness ==
    /\ entry = "process_query"
    /\ pc = "DONE"
    /\ failed.by = "scorer"
    /\ calls.index = 1
    /\ calls.lookup = 2
    /\ calls.scorer = 1
    /\ calls.generation = 0


\* the tokens of `text` occur, in a row, in `shown`
OccursIn(text, shown) ==
    /\ text # <<>>
    /\ \E k \in 0..(Len(shown) - Len(text)) :
          SubSeq(shown, k + 1, k + Len(text)) = text

\* C19: when the index or the generation service raised, the text of the
\* exception is not shown to the end user: it occurs neither in the result
\* process_query returns nor in the response of the /query route.
C19_ExceptionTextNotShown ==
    (entry = "process_query" /\ pc = "DONE" /\ failed.raised
        /\ failed.by \in {"index", "generation"}) =>
        /\ ~OccursIn(failed.text, result.answer.s)
        /\ ~OccursIn(failed.text, result.error.s)
        /\ ~OccursIn(failed.text, QueryResponse(result).answer.s)
        /\ ~OccursIn(failed.text, QueryResponse(result).error.s)


\* C20: a missing vector index, an unreachable index, an embedding dimension
\* that does not match the index and an unreachable generation service are
\* fatal at initialization: the construction of QueryPipeline fails, so a
\* pipeline that is ready was constructed with all of them in order.
C20_BadStartupIsFatal ==
    (entry = "QueryPipeline" /\ pc = "READY") =>
        /\ startup.neo4j = "up"
        /\ startup.vector_index = "present"
        /\ startup.index_dimension = EMBEDDING_DIMENSION
        /\ startup.ollama = "up"


\* C22: after rerank a relevance score is present only on the candidates
\* retained in the top_n output: a candidate the truncation dropped carries
\* no cross_encoder_score.
C22_ScoreOnlyOnRetained ==
    (entry = "rerank" /\ pc = "RETURNED") =>
        \A i \in 1..Len(subgraphs) :
            subgraphs[i].has_cross_encoder_score =>
                subgraphs[i].node_id \in Range(NodeIds(reranked))


\* C27: within process_query, configured to keep at least one candidate, the
\* generator is never called with an empty list: the reranked list is not
\* empty whenever generation is reached, and no result carries the
\* generator's own no-information answer.
C27_GeneratorNeverGetsEmptyList ==
    entry = "process_query" =>
        /\ pc = "GENERATE" => reranked # <<>>
        /\ llm_result.answer # Str(NO_CONTEXT_ANSWER)
        /\ result.answer # Str(NO_CONTEXT_ANSWER)
        /\ (pc = "DONE" /\ stages = StageOrder) => calls.generation = 1

C27_Witness ==
    /\ entry = "process_query"
    /\ pc = "DONE"
    /\ stages = StageOrder
    /\ Len(subgraphs) = 1
    /\ Len(reranked) = 1
    /\ calls.generation = 1
    /\ failed.by = "none"

\* C28: in every result of process_query the sources are non-empty only on a
\* successful generation: they are empty whenever error is set and whenever
\* the call ended on the no-results short-circuit, also when candidates had
\* been retrieved and reranked; and there are never more than TOP_N_RERANKED.
C28_SourcesOnlyOnSuccess ==
    (entry = "process_query" /\ pc = "DONE") =>
        /\ result.error # None => result.sources = <<>>
        /\ EndedWithoutResults => result.sources = <<>>
        /\ Len(result.sources) <= TOP_N_RERANKED

C28_Witness ==
    /\ entry = "process_query"
    /\ pc = "DONE"
    /\ failed.by = "generation"
    /\ Len(subgraphs) = MaxPassages
    /\ Len(reranked) = TOP_N_RERANKED
    /\ result.error # None
    /\ result.sources = <<>>


IsSuffix(a, b) == Len(a) <= Len(b) /\ a = SubSeq(b, Len(b) - Len(a) + 1, Len(b))

C24_ContextLengthBounded ==
    entry = "format_context" =>
        \A i \in 1..Len(formatted) :
            Len(formatted[i]) <= config.MAX_CONTEXT_LENGTH + Len(TRUNCATION_MARKER)

C24_Witness ==
    /\ entry = "format_context"
    /\ Len(formatted) >= 1
    /\ Len(reranked) = 2
    /\ Len(full_context(reranked, 1)) > config.MAX_CONTEXT_LENGTH
    /\ Len(formatted[1]) = config.MAX_CONTEXT_LENGTH + Len(TRUNCATION_MARKER)

\* C25: format_context truncates exactly when the concatenated blocks are
\* longer than the configured maximum: then it returns their first
\* MAX_CONTEXT_LENGTH characters followed by the marker; otherwise, also at
\* exactly the maximum, it returns them unchanged; nothing is raised.
C25_TruncatesOnlyBeyondMaximum ==
    entry = "format_context" =>
        /\ pc # "RAISED"
        /\ raised = None
        /\ failed = NoFailure
        /\ \A i \in 1..Len(formatted) :
              LET whole == full_context(reranked, 1)
                  max == config.MAX_CONTEXT_LENGTH
              IN  IF Len(whole) > max
                  THEN formatted[i] = SubSeq(whole, 1, max) \o TRUNCATION_MARKER
                  ELSE formatted[i] = whole

C25_Witness ==
    /\ entry = "format_context"
    /\ Len(formatted) >= 1
    /\ reranked # <<>>
    /\ Len(full_context(reranked, 1)) = config.MAX_CONTEXT_LENGTH
    /\ formatted[1] = full_context(reranked, 1)

\* C26: prepare_pair builds one comparison string per candidate: with the
\* enhanced format it holds the substance name, the section name and the
\* text and ends with the first PAIR_ENTITY_LIMIT related terms at most, in
\* their order, comma-separated, also when there are fewer or none; with the
\* toggle off it is exactly the passage text.  Nothing is raised.
C26_PairHoldsFirstTwentyTerms ==
    entry = "prepare_pair" =>
        /\ pc # "RAISED"
        /\ raised = None
        /\ Len(formatted) <= Len(subgraphs)
        /\ pc = "RETURNED" => Len(formatted) = Len(subgraphs)
        /\ \A i \in 1..Len(formatted) :
              LET sg == subgraphs[i]
                  kept == SubSeq(sg.entities, 1, Min(PAIR_ENTITY_LIMIT, Len(sg.entities)))
                  terms == Join(COMMA_SPACE, kept)
              IN  IF config.ENHANCED_CONTEXT_FORMAT
                  THEN /\ IsSuffix(<<":", " ">> \o terms, formatted[i])
                       /\ OccursIn(sg.substance_name, formatted[i])
                       /\ OccursIn(sg.section_name, formatted[i])
                       /\ sg.section_text # <<>> =>
                              OccursIn(sg.section_text \o NEWLINE, formatted[i])
                  ELSE formatted[i] = sg.section_text

C26_Witness ==
    /\ entry = "prepare_pair"
    /\ pc = "RETURNED"
    /\ config.ENHANCED_CONTEXT_FORMAT
    /\ Len(subgraphs) = 2
    /\ Len(subgraphs[1].entities) = MaxEntities
    /\ Len(subgraphs[2].entities) = 0
    /\ IsSuffix(COMMA_SPACE \o EntityName(PAIR_ENTITY_LIMIT), formatted[1])
    /\ IsSuffix(<<":", " ">>, formatted[2])


C29_ConfigurationKept ==
    entry = "process_query" =>
        /\ config = DefaultConfig
        /\ threshold = MIN_SIMILARITY_THRESHOLD
        /\ top_n = TopN(TOP_N_RERANKED)
        /\ startup = HealthyStartup
        /\ pc = "IDLE" =>
              /\ rows = <<>>
              /\ sections = <<>>
              /\ subgraphs = <<>>
              /\ reranked = <<>>
              /\ llm_result = NoLLMResult

C29_StartsAsOnFreshPipeline ==
    (entry = "process_query" /\ pc = "IDLE" /\ pc' # "IDLE") =>
        /\ pc' = "VECTOR_SEARCH"
        /\ result' = EmptyResult
        /\ stages' = <<"VECTOR_SEARCH">>
        /\ calls' = NoCalls
        /\ failed' = NoFailure
        /\ raised' = None
        /\ now' = 0
        /\ rows' = <<>>
        /\ sections' = <<>>
        /\ subgraphs' = <<>>
        /\ reranked' = <<>>
        /\ llm_result' = NoLLMResult
        /\ UNCHANGED <<serving, config, formatted, startup, entry, threshold,
                       top_n, latency>>

\* C29: a query that failed or ended without results leaves the pipeline as
\* it was constructed: the configuration and the components never change,
\* nothing of a call is left when it has returned, and the next process_query
\* starts exactly as the first one on a new pipeline does.
C29_NothingCarriedAcrossQueries ==
    []C29_ConfigurationKept /\ [][C29_StartsAsOnFreshPipeline]_vars

C29_Witness ==
    /\ entry = "process_query"
    /\ pc = "IDLE"
    /\ failed.by = "scorer"
    /\ result.error # None
    /\ subgraphs = <<>>
    /\ config = DefaultConfig


C30_ServingInvariant ==
    /\ NotInitialized(pipeline) =>
          /\ stages = <<>>
          /\ calls = NoCalls
          /\ result = EmptyResult
          /\ response.route = "/query" => response.status_code = 503
          /\ response.route = "/health" => response.body.status = "initializing"

C30_ServingStep ==
    /\ pipeline # "None" => pipeline' = pipeline
    /\ (response' # response /\ response'.route = "/query"
          /\ pipeline = "None") =>
          /\ response'.status_code = 503
          /\ UNCHANGED <<pc, stages, calls, result>>
    /\ (response' # response /\ response'.route = "/health") =>
          response'.body.status =
             IF pipeline = "None" THEN "initializing" ELSE "healthy"

\* C30: a /query request arriving before set_pipeline installed a pipeline
\* is answered 503 and process_query is not called; /health answers
\* "initializing" in exactly the states without a pipeline and "healthy" in
\* every state after set_pipeline; the handle, once set, is never unset.
C30_RoutesGuardThePipeline == []C30_ServingInvariant /\ [][C30_ServingStep]_vars

C30_Witness ==
    /\ pipeline = "None"
    /\ pc = "STARTING"
    /\ response = ServiceUnavailableResponse
    /\ calls = NoCalls


\* the result of process_query(q) run alone on the pipeline
AloneSubgraphs(q) ==
    LET passed == SelectSeq(StoreRows(q),
                            LAMBDA r : r.similarity_score >= MIN_SIMILARITY_THRESHOLD)
    IN  [i \in 1..Len(passed) |->
            build_subgraph_context(passed[i], EntitiesOf(passed[i].node_id))]

AloneResult(q) ==
    LET found == AloneSubgraphs(q)
        searched == SetTiming(EmptyResult, "vector_search", 0)
    IN  IF found = <<>>
        THEN SetTiming([searched EXCEPT !.answer = Str(NO_RESULTS_ANSWER)], "total", 0)
        ELSE LET top == rerank(found, ScoresFor(q), TopN(TOP_N_RERANKED))
                 answered == generate_answer(top, OutcomeFor(q))
             IN  MergeLLMResult(SetTiming(searched, "reranking", 0), answered, 0, 0)

\* C21: concurrent process_query calls on one pipeline are independent:
\* under every interleaving the result a caller gets is the result its query
\* gets when run alone against the same store and services.
C21_ConcurrentCallsAreIndependent ==
    \A c \in DOMAIN callers :
        callers[c].pc = "DONE" =>
            frames[c].result = AloneResult(callers[c].query)

C21_Witness ==
    /\ Len(callers) >= 2
    /\ callers[1].pc = "DONE"
    /\ callers[1].query = "asparagus"
    /\ callers[2].pc = "GENERATE"
    /\ callers[2].query = "ginger"
    /\ Len(frames[1].result.sources) = 2

====
